---- MODULE Spec2Model ----
(***************************************************************************)
(* Model of the linker HTTP service (src/src/main.rs): the request         *)
(* handlers over guild configurations, the role/privilege relation and the *)
(* slap ledger, together with the error conversion `From<AdapterError>`    *)
(* and the responder of `ApiError`.                                         *)
(*                                                                         *)
(* The handlers delegate every read and write to the `db_adapter` crate,   *)
(* whose code is not part of src/.  The store operations are therefore     *)
(* modelled from the written specification (sections 3, 4 and 5) and are   *)
(* kept apart from the handlers: every definition named after a db_adapter *)
(* item (GuildConfig_*, GuildConfigBuilder_*, GuildSlapRecord_*, ...) is a *)
(* store operation, every definition named after a route is a handler.     *)
(* The store is assumed reachable: `AdapterError::SqlxError` is converted  *)
(* by From_AdapterError but no store operation of the model produces it.   *)
(***************************************************************************)
EXTENDS Integers, Sequences, FiniteSets, TLC

VARIABLES
    guilds,           \* rows of the guild-configuration table
    role_privileges,  \* the role/privilege relation: rows <<guild, role, privilege>>
    slaps,            \* rows of the slap ledger
    next_id,          \* the next id the store assigns to a ledger row
    reqs,             \* requests in flight, suspended at their store call
    resp              \* the request completed last: route, arguments, result

vars == <<guilds, role_privileges, slaps, next_id, reqs, resp>>

-----------------------------------------------------------------------------
(* Values *)

\* Option<T>: None is the empty sequence, Some(x) the one-element sequence.
None == <<>>
Some(x) == <<x>>
IsSome(o) == o # None
Unwrap(o) == o[1]

\* Result<T, E>, and the unwinding of a handler by a panic.
Ok(v) == [tag |-> "Ok", val |-> v]
Err(e) == [tag |-> "Err", err |-> e]
Panic == [tag |-> "Panic"]
Unit == "()"

GuildIds == {1, 2}
ChannelIds == {5}
RoleIds == {1, 2}

Privilege == {"Admin", "Manager", "Event"}

\* Message texts a client may send; the longer one exceeds the store's limit.
Texts == {"hi", "goodbye!"}

-----------------------------------------------------------------------------
(* Errors: enum ApiError, impl From<AdapterError>, impl Responder *)

SqlxError == [variant |-> "SqlxError"]
GuildError(e) == [variant |-> "GuildError", inner |-> e]
AlreadyExists(id) == [variant |-> "AlreadyExists", id |-> id]
NotFound(id) == [variant |-> "NotFound", id |-> id]
MessageTooLong(id) == [variant |-> "MessageTooLong", id |-> id]

UnrecognizedPrivilege(text) == [variant |-> "UnrecognizedPrivilege", text |-> text]

\* Faulty variant: every guild error is treated like a driver failure.
From_AdapterError_NoArm(err) ==
    Ok([variant |-> "AdapterError",
        status |-> "InternalServerError",
        reason |-> "sqlx driver failed to query the database",
        source |-> err])

\* impl From<AdapterError> for ApiError.  The result is Ok(ApiError), or Panic
\* where the match reaches `todo!()`.
From_AdapterError(err) ==
    IF err.variant = "SqlxError"
    THEN Ok([variant |-> "AdapterError",
             status |-> "InternalServerError",
             reason |-> "sqlx driver failed to query the database",
             source |-> err])
    ELSE IF err.inner.variant = "AlreadyExists"
         THEN Ok([variant |-> "AdapterError",
                  status |-> "BadRequest",
                  reason |-> "guild already exists",
                  source |-> err])
         ELSE Panic

\* The `?` operator on a Result<T, AdapterError> inside a handler returning
\* ApiResult: Ok passes through, Err returns early with the converted error.
Try(res) ==
    IF res.tag = "Ok" THEN res
    ELSE LET conv == From_AdapterError(res.err)
         IN IF conv.tag = "Panic" THEN Panic ELSE Err(conv.val)

\* impl Responder for ApiError (and the 200 response of an Ok result): the
\* status and the body of the HTTP response.  A handler that panicked built
\* no response: the server answers for it with a bare InternalServerError.
respond_to(result) ==
    IF result.tag = "Ok" THEN [status |-> "Ok", body |-> Some(result.val)]
    ELSE IF result.tag = "Panic" THEN [status |-> "InternalServerError", body |-> None]
    ELSE IF result.err.variant = "AdapterError"
         THEN [status |-> result.err.status, body |-> Some(result.err.reason)]
         ELSE [status |-> "BadRequest", body |-> None]

-----------------------------------------------------------------------------
(* db_adapter::guild -- the guild-configuration store (from the specification) *)

\* The longest message the store accepts.
MaxMessageLen == 5

\* A row of the guild table.
GuildRow(id, admin_chan, advertise, welcome, goodbye) ==
    [id |-> id, admin_chan |-> admin_chan, advertise |-> advertise,
     welcome_message |-> welcome, goodbye_message |-> goodbye]

RowsOf(rows, g) == {r \in rows : r.id = g}
RowOf(rows, g) == CHOOSE r \in rows : r.id = g

\* GuildConfigBuilder::new: nothing set but the id.
GuildConfigBuilder_new(id) == GuildRow(id, None, TRUE, None, None)

\* GuildConfigBuilder::advertise
GuildConfigBuilder_advertise(b, policy) == [b EXCEPT !.advertise = policy]

\* GuildConfigBuilder::welcome_message: validates, then fills the welcome slot.
GuildConfigBuilder_welcome_message(b, msg) ==
    IF Len(msg) > MaxMessageLen
    THEN Err(GuildError(MessageTooLong(b.id)))
    ELSE Ok([b EXCEPT !.welcome_message = Some(msg)])

\* GuildConfig::exists
GuildConfig_exists(rows, g) == RowsOf(rows, g) # {}

\* GuildConfig::new: one atomic insert under the uniqueness constraint on id.
GuildConfig_new(rows, b) ==
    IF GuildConfig_exists(rows, b.id)
    THEN [store |-> rows, res |-> Err(GuildError(AlreadyExists(b.id)))]
    ELSE [store |-> rows \cup {b}, res |-> Ok(b.id)]

\* The single-field update behind every setter.
UpdateRow(rows, g, field, value) ==
    IF GuildConfig_exists(rows, g)
    THEN [store |-> {IF r.id = g THEN [r EXCEPT ![field] = value] ELSE r : r \in rows},
          res |-> Ok(Unit)]
    ELSE [store |-> rows, res |-> Err(GuildError(NotFound(g)))]

GuildConfig_set_admin_chan(rows, g, chan) == UpdateRow(rows, g, "admin_chan", chan)

GuildConfig_set_advertise(rows, g, policy) == UpdateRow(rows, g, "advertise", policy)

GuildConfig_set_welcome_message(rows, g, msg) == UpdateRow(rows, g, "welcome_message", msg)

GuildConfig_set_goodbye_message(rows, g, msg) == UpdateRow(rows, g, "goodbye_message", msg)

\* The field reads: NotFound for a guild without a row.
ReadRow(rows, g, field) ==
    IF GuildConfig_exists(rows, g)
    THEN Ok(RowOf(rows, g)[field])
    ELSE Err(GuildError(NotFound(g)))

GuildConfig_get_admin_chan(rows, g) == ReadRow(rows, g, "admin_chan")

GuildConfig_get_advertise(rows, g) == ReadRow(rows, g, "advertise")

GuildConfig_get_welcome_message(rows, g) == ReadRow(rows, g, "welcome_message")

GuildConfig_get_goodbye_message(rows, g) == ReadRow(rows, g, "goodbye_message")

-----------------------------------------------------------------------------
(* The guild-configuration routes *)

\* struct NewGuildForm
NewGuildForm(id, welcome, goodbye, advertise) ==
    [id |-> id, welcome_message |-> welcome, goodbye_message |-> goodbye,
     advertise |-> advertise]

\* guild_new up to its store call: the builder, or the early return of a `?`.
guild_new_build(config) ==
    LET b0 == GuildConfigBuilder_new(config.id)
        b1 == GuildConfigBuilder_advertise(b0, config.advertise)
        r1 == IF IsSome(config.welcome_message)
              THEN Try(GuildConfigBuilder_welcome_message(b1, Unwrap(config.welcome_message)))
              ELSE Ok(b1)
    IN IF r1.tag # "Ok" THEN r1
       ELSE IF IsSome(config.goodbye_message)
            THEN Try(GuildConfigBuilder_welcome_message(r1.val, Unwrap(config.goodbye_message)))
            ELSE r1

\* Faulty variant: the outcome of the store call is dropped.
guild_new_finish_Swallow(res) == Ok(Unit)

\* guild_new after its store call: `GuildConfig::new(..).await?; Ok(())`.
guild_new_finish(res) ==
    LET r == Try(res) IN IF r.tag = "Ok" THEN Ok(Unit) ELSE r

\* POST /guild/new
guild_new(rows, config) ==
    LET built == guild_new_build(config)
    IN IF built.tag # "Ok"
       THEN [store |-> rows, result |-> built]
       ELSE LET out == GuildConfig_new(rows, built.val)
            IN [store |-> out.store, result |-> guild_new_finish(out.res)]

\* The shape shared by the four setters: `Ok(GuildConfig(..).set_x(..).await?)`.
Setter(out) == [store |-> out.store, result |-> Try(out.res)]

\* POST /guild/<guild>/admin_channel
guild_set_admin_chan(rows, guild, chan) ==
    Setter(GuildConfig_set_admin_chan(rows, guild, chan))

\* POST /guild/<guild>/advertise
guild_set_advertise(rows, guild, policy) ==
    Setter(GuildConfig_set_advertise(rows, guild, policy))

\* POST /guild/<guild>/welcome_message
guild_set_welcome_message(rows, guild, message) ==
    Setter(GuildConfig_set_welcome_message(rows, guild, message))

\* Faulty variant: the goodbye route writes the welcome message.
guild_set_goodbye_message_WrongField(rows, guild, message) ==
    Setter(GuildConfig_set_welcome_message(rows, guild, message))

\* POST /guild/<guild>/goodbye_message
guild_set_goodbye_message(rows, guild, message) ==
    Setter(GuildConfig_set_goodbye_message(rows, guild, message))

\* GET /guild/<guild>/exists
guild_exists(rows, guild) == Ok(GuildConfig_exists(rows, guild))

\* GET /guild/<guild>/admin_channel
guild_admin_chan(rows, guild) == Try(GuildConfig_get_admin_chan(rows, guild))

\* GET /guild/<guild>/advertise
guild_advertise(rows, guild) == Try(GuildConfig_get_advertise(rows, guild))

\* GET /guild/<guild>/goodbye_message
guild_goodbye_message(rows, guild) == Try(GuildConfig_get_goodbye_message(rows, guild))

\* GET /guild/<guild>/welcome_message
guild_welcome_message(rows, guild) == Try(GuildConfig_get_welcome_message(rows, guild))

-----------------------------------------------------------------------------
(* The configuration service: one request at a time *)

OptionOf(S) == {None} \cup {Some(x) : x \in S}

NewGuildForms ==
    {NewGuildForm(id, w, g, a) :
        id \in GuildIds, w \in OptionOf(Texts), g \in OptionOf(Texts), a \in BOOLEAN}

NoRequests == <<>>
NoResponse == [op |-> "none"]

InitStore ==
    /\ guilds = {}
    /\ role_privileges = {}
    /\ slaps = {}
    /\ next_id = 1
    /\ reqs = NoRequests
    /\ resp = NoResponse

Completed(op, args, result) == [op |-> op, args |-> args, result |-> result]

GuildNew ==
    \E config \in NewGuildForms :
        LET out == guild_new(guilds, config)
        IN /\ guilds' = out.store
           /\ resp' = Completed("guild_new", config, out.result)
           /\ UNCHANGED <<role_privileges, slaps, next_id, reqs>>

GuildSetAdminChan ==
    \E guild \in GuildIds, chan \in OptionOf(ChannelIds) :
        LET out == guild_set_admin_chan(guilds, guild, chan)
        IN /\ guilds' = out.store
           /\ resp' = Completed("guild_set_admin_chan", [guild |-> guild, value |-> chan],
                                out.result)
           /\ UNCHANGED <<role_privileges, slaps, next_id, reqs>>

GuildSetAdvertise ==
    \E guild \in GuildIds, policy \in BOOLEAN :
        LET out == guild_set_advertise(guilds, guild, policy)
        IN /\ guilds' = out.store
           /\ resp' = Completed("guild_set_advertise", [guild |-> guild, value |-> policy],
                                out.result)
           /\ UNCHANGED <<role_privileges, slaps, next_id, reqs>>

GuildSetWelcomeMessage ==
    \E guild \in GuildIds, message \in OptionOf(Texts) :
        LET out == guild_set_welcome_message(guilds, guild, message)
        IN /\ guilds' = out.store
           /\ resp' = Completed("guild_set_welcome_message",
                                [guild |-> guild, value |-> message], out.result)
           /\ UNCHANGED <<role_privileges, slaps, next_id, reqs>>

GuildSetGoodbyeMessage ==
    \E guild \in GuildIds, message \in OptionOf(Texts) :
        LET out == guild_set_goodbye_message(guilds, guild, message)
        IN /\ guilds' = out.store
           /\ resp' = Completed("guild_set_goodbye_message",
                                [guild |-> guild, value |-> message], out.result)
           /\ UNCHANGED <<role_privileges, slaps, next_id, reqs>>

GuildExists ==
    \E guild \in GuildIds :
        /\ resp' = Completed("guild_exists", [guild |-> guild], guild_exists(guilds, guild))
        /\ UNCHANGED <<guilds, role_privileges, slaps, next_id, reqs>>

GuildAdminChan ==
    \E guild \in GuildIds :
        /\ resp' = Completed("guild_admin_chan", [guild |-> guild],
                             guild_admin_chan(guilds, guild))
        /\ UNCHANGED <<guilds, role_privileges, slaps, next_id, reqs>>

GuildAdvertise ==
    \E guild \in GuildIds :
        /\ resp' = Completed("guild_advertise", [guild |-> guild],
                             guild_advertise(guilds, guild))
        /\ UNCHANGED <<guilds, role_privileges, slaps, next_id, reqs>>

GuildGoodbyeMessage ==
    \E guild \in GuildIds :
        /\ resp' = Completed("guild_goodbye_message", [guild |-> guild],
                             guild_goodbye_message(guilds, guild))
        /\ UNCHANGED <<guilds, role_privileges, slaps, next_id, reqs>>

GuildWelcomeMessage ==
    \E guild \in GuildIds :
        /\ resp' = Completed("guild_welcome_message", [guild |-> guild],
                             guild_welcome_message(guilds, guild))
        /\ UNCHANGED <<guilds, role_privileges, slaps, next_id, reqs>>

NextConfig ==
    \/ GuildNew
    \/ GuildSetAdminChan
    \/ GuildSetAdvertise
    \/ GuildSetWelcomeMessage
    \/ GuildSetGoodbyeMessage
    \/ GuildExists
    \/ GuildAdminChan
    \/ GuildAdvertise
    \/ GuildGoodbyeMessage
    \/ GuildWelcomeMessage

SpecConfig == InitStore /\ [][NextConfig]_vars

-----------------------------------------------------------------------------
(* Properties of the configuration service *)

\* Every message the form supplies passes the store's validation.
MessagesValid(config) ==
    /\ IsSome(config.welcome_message) => Len(Unwrap(config.welcome_message)) <= MaxMessageLen
    /\ IsSome(config.goodbye_message) => Len(Unwrap(config.goodbye_message)) <= MaxMessageLen

\* The result is the failure AlreadyExists(g), answered as a bad request.
FailsAlreadyExists(result, g) ==
    /\ result.tag = "Err"
    /\ result.err.variant = "AdapterError"
    /\ result.err.source = GuildError(AlreadyExists(g))
    /\ respond_to(result).status = "BadRequest"

AtMostOneConfig == \A g \in GuildIds : Cardinality(RowsOf(guilds, g)) <= 1

SetterOps ==
    {"guild_set_admin_chan", "guild_set_advertise",
     "guild_set_welcome_message", "guild_set_goodbye_message"}

\* The field of a guild row each setter names.
FieldOf(op) ==
    CASE op = "guild_set_admin_chan" -> "admin_chan"
      [] op = "guild_set_advertise" -> "advertise"
      [] op = "guild_set_welcome_message" -> "welcome_message"
      [] op = "guild_set_goodbye_message" -> "goodbye_message"

RowFields == {"id", "admin_chan", "advertise", "welcome_message", "goodbye_message"}

\* C1 as stated: a guild_new for a guild that has a configuration fails with
\* AlreadyExists and leaves the stored rows as they were, and no guild ever has
\* two configurations.
C1_Original ==
    /\ []AtMostOneConfig
    /\ [][(resp'.op = "guild_new" /\ GuildConfig_exists(guilds, resp'.args.id))
            => (FailsAlreadyExists(resp'.result, resp'.args.id) /\ guilds' = guilds)]_vars

\* C1 as amended: a guild_new for a guild that has a configuration leaves the
\* stored rows as they were, and fails with AlreadyExists when the messages it
\* supplies pass validation; no guild ever has two configurations.
C1_ExistingGuildRejected ==
    /\ []AtMostOneConfig
    /\ [][(resp'.op = "guild_new" /\ GuildConfig_exists(guilds, resp'.args.id))
            => /\ guilds' = guilds
               /\ resp'.result.tag # "Ok"
               /\ MessagesValid(resp'.args)
                    => FailsAlreadyExists(resp'.result, resp'.args.id)]_vars

\* C1's case: a valid guild_new was just refused for a guild whose stored row
\* differs from the one the form asked for.
C1_Witness ==
    /\ resp.op = "guild_new"
    /\ MessagesValid(resp.args)
    /\ FailsAlreadyExists(resp.result, resp.args.id)
    /\ GuildConfig_exists(guilds, resp.args.id)
    /\ RowOf(guilds, resp.args.id).advertise # resp.args.advertise

\* C7: a setter on a guild without a configuration, and a guild_new whose
\* message fails validation, return a typed error of that kind (never a panic,
\* never a success) and create no configuration.
C7_TypedFailure ==
    /\ (resp.op \in SetterOps /\ ~GuildConfig_exists(guilds, resp.args.guild))
          => /\ resp.result.tag = "Err"
             /\ resp.result.err.source = GuildError(NotFound(resp.args.guild))
    /\ (resp.op = "guild_new" /\ ~MessagesValid(resp.args))
          => /\ resp.result.tag = "Err"
             /\ resp.result.err.source = GuildError(MessageTooLong(resp.args.id))

\* C8: on a guild that has a configuration a setter succeeds, writes the given
\* value into the field it names, and leaves every other field of that row,
\* every other row and the role/privilege relation as they were; the getter of
\* a message then returns what the setter wrote, absent included.
C8_SetterFrame ==
    /\ [][(resp'.op \in SetterOps /\ GuildConfig_exists(guilds, resp'.args.guild))
            => LET g == resp'.args.guild
                   old == RowOf(guilds, g)
                   new == RowOf(guilds', g)
               IN /\ resp'.result = Ok(Unit)
                  /\ Cardinality(RowsOf(guilds', g)) = 1
                  /\ new[FieldOf(resp'.op)] = resp'.args.value
                  /\ \A f \in RowFields \ {FieldOf(resp'.op)} : new[f] = old[f]
                  /\ guilds' \ {new} = guilds \ {old}
                  /\ role_privileges' = role_privileges]_vars
    /\ [](resp.op = "guild_set_welcome_message" /\ resp.result.tag = "Ok"
            => guild_welcome_message(guilds, resp.args.guild) = Ok(resp.args.value))
    /\ [](resp.op = "guild_set_goodbye_message" /\ resp.result.tag = "Ok"
            => guild_goodbye_message(guilds, resp.args.guild) = Ok(resp.args.value))

\* C8's case: the welcome message of a guild was just cleared while its
\* goodbye message and its admin channel are set.
C8_Witness ==
    /\ resp.op = "guild_set_welcome_message"
    /\ resp.result = Ok(Unit)
    /\ resp.args.value = None
    /\ LET row == RowOf(guilds, resp.args.guild)
       IN /\ row.welcome_message = None
          /\ IsSome(row.goodbye_message)
          /\ IsSome(row.admin_chan)

\* C10: after a successful guild_new the stored welcome message is the one
\* the form supplied and the stored goodbye message is the one it supplied.
C10_MessagesIndependent ==
    (resp.op = "guild_new" /\ resp.result.tag = "Ok")
        => /\ guild_welcome_message(guilds, resp.args.id) = Ok(resp.args.welcome_message)
           /\ guild_goodbye_message(guilds, resp.args.id) = Ok(resp.args.goodbye_message)

-----------------------------------------------------------------------------
(* Concurrent guild_new requests: each handler is a task that suspends at  *)
(* its one store call, `GuildConfig::new(..).await`                         *)

\* How many guild_new requests are in flight together.
NumRequests == 2

Procs == 1 .. NumRequests

\* The forms of the concurrent requests: no goodbye message.
ConcurrentForms == {config \in NewGuildForms : config.goodbye_message = None}

InitConcurrent ==
    /\ guilds = {}
    /\ role_privileges = {}
    /\ slaps = {}
    /\ next_id = 1
    /\ reqs = [p \in Procs |-> [pc |-> "idle"]]
    /\ resp = NoResponse

\* The task of request p runs up to its store call.  `raced` remembers that
\* the guild had no configuration when the request arrived.
GuildNewReceive(p) ==
    /\ reqs[p].pc = "idle"
    /\ \E config \in ConcurrentForms :
          LET built == guild_new_build(config)
              raced == ~GuildConfig_exists(guilds, config.id)
          IN reqs' = [reqs EXCEPT ![p] =
                        IF built.tag = "Ok"
                        THEN [pc |-> "store", config |-> config, builder |-> built.val,
                              raced |-> raced]
                        ELSE [pc |-> "done", config |-> config, result |-> built,
                              called |-> FALSE, raced |-> raced]]
    /\ UNCHANGED <<guilds, role_privileges, slaps, next_id, resp>>

\* The store serves the call of request p, and the task runs to its end.
GuildNewStore(p) ==
    /\ reqs[p].pc = "store"
    /\ LET out == GuildConfig_new(guilds, reqs[p].builder)
           result == guild_new_finish(out.res)
       IN /\ guilds' = out.store
          /\ reqs' = [reqs EXCEPT ![p] =
                        [pc |-> "done", config |-> reqs[p].config, result |-> result,
                         called |-> TRUE, raced |-> reqs[p].raced]]
          /\ resp' = Completed("guild_new", reqs[p].config, result)
    /\ UNCHANGED <<role_privileges, slaps, next_id>>

NextConcurrent ==
    \E p \in Procs : GuildNewReceive(p) \/ GuildNewStore(p)

SpecConcurrent == InitConcurrent /\ [][NextConcurrent]_vars

\* The requests for guild g whose store call has been served.
Served(g) ==
    {p \in Procs : reqs[p].pc = "done" /\ reqs[p].called /\ reqs[p].config.id = g}

\* C2: among the guild_new requests for one guild whose store calls have been
\* served, in whatever order, exactly one succeeded and every other one failed
\* with AlreadyExists; two successes for one guild are unreachable.
C2_OneWinner ==
    \A g \in GuildIds :
        LET won == {p \in Served(g) : reqs[p].result.tag = "Ok"}
        IN Served(g) # {}
              => /\ Cardinality(won) = 1
                 /\ \A p \in Served(g) \ won : FailsAlreadyExists(reqs[p].result, g)

\* C2's case: two requests for one guild were in flight together (neither saw
\* a configuration on arrival); one succeeded and the other was refused.
C2_Witness ==
    \E p, q \in Procs :
        /\ p # q
        /\ reqs[p].pc = "done" /\ reqs[q].pc = "done"
        /\ p \in Served(reqs[q].config.id)
        /\ q \in Served(reqs[p].config.id)
        /\ reqs[p].raced /\ reqs[q].raced
        /\ reqs[p].result.tag = "Ok"
        /\ FailsAlreadyExists(reqs[q].result, reqs[q].config.id)

-----------------------------------------------------------------------------
(* db_adapter::slap -- the ledger store (from the specification) *)

\* struct SlapReport: a row of the ledger.
SlapReport(id, guild, sentence, offender, enforcer, reason) ==
    [id |-> id, guild |-> guild, sentence |-> sentence, offender |-> offender,
     enforcer |-> enforcer, reason |-> reason]

\* The rows of a set in ascending id order.
RECURSIVE OrderById(_)
OrderById(rows) ==
    IF rows = {} THEN <<>>
    ELSE LET first == CHOOSE r \in rows : \A o \in rows : r.id <= o.id
         IN <<first>> \o OrderById(rows \ {first})

\* GuildSlapRecord::slaps: the stream of the guild's reports, oldest first.
GuildSlapRecord_slaps(rows, guild) == OrderById({r \in rows : r.guild = guild})

\* GuildSlapRecord::len
GuildSlapRecord_len(rows, guild) == Ok(Cardinality({r \in rows : r.guild = guild}))

\* GuildSlapRecord::new_slap: one atomic insert; the store assigns the id.
GuildSlapRecord_new_slap(rows, id, guild, sentence, offender, enforcer, reason) ==
    LET report == SlapReport(id, guild, sentence, offender, enforcer, reason)
    IN [store |-> rows \cup {report}, next |-> id + 1, res |-> Ok(report)]

-----------------------------------------------------------------------------
(* The ledger routes *)

\* StreamExt::take(number) followed by collect: the first `number` items.
Take(stream, number) ==
    SubSeq(stream, 1, IF number < Len(stream) THEN number ELSE Len(stream))

\* Faulty variant: the stream is collected whole.
gsr_slaps_NoTake(rows, guild, number) == Ok(GuildSlapRecord_slaps(rows, guild))

\* GET /slaps/<guild>/reports?<number>
gsr_slaps(rows, guild, number) == Ok(Take(GuildSlapRecord_slaps(rows, guild), number))

\* GET /slaps/<guild>/len
gsr_len(rows, guild) == Try(GuildSlapRecord_len(rows, guild))

\* struct SlapForm
SlapForm(guild, sentence, offender, enforcer, reason) ==
    [guild |-> guild, sentence |-> sentence, offender |-> offender,
     enforcer |-> enforcer, reason |-> reason]

\* Faulty variant: the record is keyed by the offender instead of the guild.
new_slap_WrongGuild(rows, id, slap) ==
    LET out == GuildSlapRecord_new_slap(rows, id, slap.offender, slap.sentence,
                                        slap.offender, slap.enforcer, slap.reason)
    IN [store |-> out.store, next |-> out.next, result |-> Try(out.res)]

\* POST /slaps/new
new_slap(rows, id, slap) ==
    LET out == GuildSlapRecord_new_slap(rows, id, slap.guild, slap.sentence,
                                        slap.offender, slap.enforcer, slap.reason)
    IN [store |-> out.store, next |-> out.next, result |-> Try(out.res)]

-----------------------------------------------------------------------------
(* The ledger service: new_slap requests in flight together, reads between *)

\* The ledger holds at most this many rows.
MaxSlaps == 3

\* The largest `number` a read asks for.
MaxNumber == 4

SlapForms ==
    {SlapForm(1, 10, 1, None, None),
     SlapForm(1, 20, 2, Some(1), Some("hi")),
     SlapForm(2, 10, 1, Some(2), None)}

InitLedger ==
    /\ guilds = {}
    /\ role_privileges = {}
    /\ slaps = {}
    /\ next_id = 1
    /\ reqs = [p \in Procs |-> [pc |-> "idle"]]
    /\ resp = NoResponse

\* A new_slap request arrives and its task runs up to the store call.
NewSlapReceive(p) ==
    /\ reqs[p].pc = "idle"
    /\ \E slap \in SlapForms :
          reqs' = [reqs EXCEPT ![p] = [pc |-> "store", slap |-> slap]]
    /\ UNCHANGED <<guilds, role_privileges, slaps, next_id, resp>>

\* The store serves the insert of request p, and the task answers.
NewSlapStore(p) ==
    /\ reqs[p].pc = "store"
    /\ next_id <= MaxSlaps
    /\ LET out == new_slap(slaps, next_id, reqs[p].slap)
       IN /\ slaps' = out.store
          /\ next_id' = out.next
          /\ resp' = Completed("new_slap", reqs[p].slap, out.result)
    /\ reqs' = [reqs EXCEPT ![p] = [pc |-> "idle"]]
    /\ UNCHANGED <<guilds, role_privileges>>

GsrSlaps ==
    \E guild \in GuildIds, number \in 0 .. MaxNumber :
        /\ resp' = Completed("gsr_slaps", [guild |-> guild, number |-> number],
                             gsr_slaps(slaps, guild, number))
        /\ UNCHANGED <<guilds, role_privileges, slaps, next_id, reqs>>

GsrLen ==
    \E guild \in GuildIds :
        /\ resp' = Completed("gsr_len", [guild |-> guild], gsr_len(slaps, guild))
        /\ UNCHANGED <<guilds, role_privileges, slaps, next_id, reqs>>

NextLedger ==
    \/ \E p \in Procs : NewSlapReceive(p)
    \/ \E p \in Procs : NewSlapStore(p)
    \/ GsrSlaps
    \/ GsrLen

SpecLedger == InitLedger /\ [][NextLedger]_vars

-----------------------------------------------------------------------------
(* Properties of the ledger service *)

OfGuild(rows, guild) == {r \in rows : r.guild = guild}

Min(a, b) == IF a < b THEN a ELSE b

\* C3: gsr_slaps(G, number) succeeds and returns min(number, len(G)) rows of
\* guild G, in strictly ascending id order, every returned row older than
\* every row of G left out; gsr_len(G) returns the number of rows of G.
C3_OldestFirstPrefix ==
    /\ resp.op = "gsr_slaps"
          => /\ resp.result.tag = "Ok"
             /\ LET body == resp.result.val
                    mine == OfGuild(slaps, resp.args.guild)
                    got == {body[i] : i \in 1 .. Len(body)}
                IN /\ Len(body) = Min(resp.args.number, Cardinality(mine))
                   /\ got \subseteq mine
                   /\ \A i, j \in 1 .. Len(body) : i < j => body[i].id < body[j].id
                   /\ \A r \in mine \ got : \A o \in got : o.id < r.id
    /\ resp.op = "gsr_len"
          => resp.result = Ok(Cardinality(OfGuild(slaps, resp.args.guild)))

\* C3's case: a read of fewer rows than the guild has, while the ledger also
\* holds a row of another guild that is older than a returned row.
C3_Witness ==
    /\ resp.op = "gsr_slaps"
    /\ resp.result.tag = "Ok"
    /\ Len(resp.result.val) = 1
    /\ resp.args.number = 1
    /\ Cardinality(OfGuild(slaps, resp.args.guild)) = 2
    /\ \E r \in slaps : r.guild # resp.args.guild /\ r.id < resp.result.val[1].id

\* C4: a new_slap adds exactly one row, which carries the form's data and an
\* id greater than every id in the ledger, so the length of its guild grows by
\* one and no other guild's length changes; ids are never shared; no step
\* removes or changes a row.
C4_AppendOnly ==
    /\ [](\A r, o \in slaps : r.id = o.id => r = o)
    /\ [][slaps \subseteq slaps']_vars
    /\ [][(\E p \in Procs : reqs[p].pc = "store" /\ reqs'[p].pc = "idle") =>
            /\ resp'.op = "new_slap"
            /\ resp'.result.tag = "Ok"
            /\ LET new == resp'.result.val
                   slap == resp'.args
               IN /\ new \notin slaps
                  /\ slaps' = slaps \cup {new}
                  /\ \A r \in slaps : r.id < new.id
                  /\ SlapForm(new.guild, new.sentence, new.offender, new.enforcer,
                              new.reason) = slap
                  /\ \A g \in GuildIds :
                        gsr_len(slaps', g).val =
                            gsr_len(slaps, g).val + (IF g = slap.guild THEN 1 ELSE 0)]_vars

\* C4's case: a new_slap has just added a row that repeats the arguments of
\* an older row, while another new_slap request is still in flight.
C4_Witness ==
    /\ resp.op = "new_slap"
    /\ resp.result.tag = "Ok"
    /\ \E r \in slaps :
          /\ r.id < resp.result.val.id
          /\ [r EXCEPT !.id = resp.result.val.id] = resp.result.val
    /\ \E p \in Procs : reqs[p].pc = "store"

-----------------------------------------------------------------------------
(* db_adapter::guild -- the role/privilege relation (from the specification) *)

\* The variants of Privilege in declaration order.
PrivilegeOrder == <<"Admin", "Manager", "Event">>

\* impl AsRef<str> for Privilege: the lowercase token of a variant.
Privilege_as_ref(privilege) ==
    CASE privilege = "Admin" -> "admin"
      [] privilege = "Manager" -> "manager"
      [] privilege = "Event" -> "event"

\* The members of a set of numbers in ascending order.
RECURSIVE Ascending(_)
Ascending(S) ==
    IF S = {} THEN <<>>
    ELSE LET least == CHOOSE x \in S : \A y \in S : x <= y
         IN <<least>> \o Ascending(S \ {least})

\* GuildConfig::get_privileges_for
GuildConfig_get_privileges_for(rel, g, role) ==
    LET held(privilege) == <<g, role, privilege>> \in rel
    IN Ok(SelectSeq(PrivilegeOrder, held))

\* GuildConfig::get_roles_with
GuildConfig_get_roles_with(rel, g, privilege) ==
    Ok(Ascending({row[2] : row \in {r \in rel : r[1] = g /\ r[3] = privilege}}))

\* GuildConfig::has_privileges: the role holds every privilege of the slice.
GuildConfig_has_privileges(rel, g, role, privileges) ==
    Ok(\A i \in 1 .. Len(privileges) : <<g, role, privileges[i]>> \in rel)

\* GuildConfig::have_privilege: some role of the slice holds the privilege.
GuildConfig_have_privilege(rel, g, roles, privilege) ==
    Ok(\E i \in 1 .. Len(roles) : <<g, roles[i], privilege>> \in rel)

-----------------------------------------------------------------------------
(* The privilege routes *)

\* Faulty variant: the match ignores the case of the first letter.
str_to_priv_AnyCase(src) ==
    CASE src \in {"admin", "Admin"} -> Ok("Admin")
      [] src \in {"manager", "Manager"} -> Ok("Manager")
      [] src \in {"event", "Event"} -> Ok("Event")
      [] OTHER -> Err(UnrecognizedPrivilege(src))

\* fn str_to_priv
str_to_priv(src) ==
    CASE src = "admin" -> Ok("Admin")
      [] src = "manager" -> Ok("Manager")
      [] src = "event" -> Ok("Event")
      [] OTHER -> Err(UnrecognizedPrivilege(src))

\* GET /guild/<guild>/privileges/for_role/<role>
guild_privileges_for(rel, guild, role) ==
    LET r == Try(GuildConfig_get_privileges_for(rel, guild, role))
    IN IF r.tag = "Ok"
       THEN Ok([i \in 1 .. Len(r.val) |-> Privilege_as_ref(r.val[i])])
       ELSE r

\* GET /guild/<guild>/privileges/roles_with/<privilege_str>
guild_roles_with(rel, guild, privilege_str) ==
    LET parsed == str_to_priv(privilege_str)
    IN IF parsed.tag = "Ok"
       THEN Try(GuildConfig_get_roles_with(rel, guild, parsed.val))
       ELSE parsed

\* The loop of guild_has_privileges: the parsed privileges, or the error of
\* the first string that does not parse.
RECURSIVE ParseAll(_, _)
ParseAll(privileges_str, privileges) ==
    IF privileges_str = <<>> THEN Ok(privileges)
    ELSE LET parsed == str_to_priv(Head(privileges_str))
         IN IF parsed.tag = "Ok"
            THEN ParseAll(Tail(privileges_str), Append(privileges, parsed.val))
            ELSE parsed

\* Faulty variant: only the first privilege reaches the store.
guild_has_privileges_FirstOnly(rel, guild, role, privileges_str) ==
    LET privileges == ParseAll(privileges_str, <<>>)
    IN IF privileges.tag = "Ok"
       THEN Try(GuildConfig_has_privileges(rel, guild, role,
                    SubSeq(privileges.val, 1, Min(1, Len(privileges.val)))))
       ELSE privileges

\* GET /guild/<guild>/privileges/has/<role>?<privileges_str>
guild_has_privileges(rel, guild, role, privileges_str) ==
    LET privileges == ParseAll(privileges_str, <<>>)
    IN IF privileges.tag = "Ok"
       THEN Try(GuildConfig_has_privileges(rel, guild, role, privileges.val))
       ELSE privileges

\* Faulty variant: only the first role reaches the store.
guild_have_privilege_FirstRole(rel, guild, roles, privilege_str) ==
    LET parsed == str_to_priv(privilege_str)
    IN IF parsed.tag = "Ok"
       THEN Try(GuildConfig_have_privilege(rel, guild,
                    SubSeq(roles, 1, Min(1, Len(roles))), parsed.val))
       ELSE parsed

\* GET /guild/<guild>/privileges/have/<privilege_str>?<roles>
guild_have_privilege(rel, guild, roles, privilege_str) ==
    LET parsed == str_to_priv(privilege_str)
    IN IF parsed.tag = "Ok"
       THEN Try(GuildConfig_have_privilege(rel, guild, roles, parsed.val))
       ELSE parsed

-----------------------------------------------------------------------------
(* The authorization service over a store that already holds privileges *)

\* The longest list of privileges a request asks about.
MaxPrivileges == 2

\* The longest list of roles a request asks about.
MaxRoles == 2

\* Texts sent where one privilege is expected.
Tokens == {"admin", "manager", "event", "owner", "Admin", "EVENT", "administrator", ""}

\* Texts sent in lists of privileges.
ListTokens == {"admin", "manager", "event", "owner"}

SeqsUpTo(S, n) == UNION {[1 .. k -> S] : k \in 0 .. n}

\* Guild 1 has a configuration and any privileges; guild 2 has neither.
ConfiguredGuilds == {1}

InitAuth ==
    /\ guilds = {GuildConfigBuilder_new(g) : g \in ConfiguredGuilds}
    /\ role_privileges \in SUBSET (ConfiguredGuilds \X RoleIds \X Privilege)
    /\ slaps = {}
    /\ next_id = 1
    /\ reqs = NoRequests
    /\ resp = NoResponse

GuildPrivilegesFor ==
    \E guild \in GuildIds, role \in RoleIds :
        /\ resp' = Completed("guild_privileges_for", [guild |-> guild, role |-> role],
                             guild_privileges_for(role_privileges, guild, role))
        /\ UNCHANGED <<guilds, role_privileges, slaps, next_id, reqs>>

GuildRolesWith ==
    \E guild \in GuildIds, privilege_str \in Tokens :
        /\ resp' = Completed("guild_roles_with",
                             [guild |-> guild, privilege_str |-> privilege_str],
                             guild_roles_with(role_privileges, guild, privilege_str))
        /\ UNCHANGED <<guilds, role_privileges, slaps, next_id, reqs>>

GuildHasPrivileges ==
    \E guild \in GuildIds, role \in RoleIds,
       privileges_str \in SeqsUpTo(ListTokens, MaxPrivileges) :
        /\ resp' = Completed("guild_has_privileges",
                             [guild |-> guild, role |-> role,
                              privileges_str |-> privileges_str],
                             guild_has_privileges(role_privileges, guild, role,
                                                  privileges_str))
        /\ UNCHANGED <<guilds, role_privileges, slaps, next_id, reqs>>

GuildHavePrivilege ==
    \E guild \in GuildIds, roles \in SeqsUpTo(RoleIds, MaxRoles),
       privilege_str \in ListTokens :
        /\ resp' = Completed("guild_have_privilege",
                             [guild |-> guild, roles |-> roles,
                              privilege_str |-> privilege_str],
                             guild_have_privilege(role_privileges, guild, roles,
                                                  privilege_str))
        /\ UNCHANGED <<guilds, role_privileges, slaps, next_id, reqs>>

NextAuth ==
    \/ GuildPrivilegesFor
    \/ GuildRolesWith
    \/ GuildHasPrivileges
    \/ GuildHavePrivilege

SpecAuth == InitAuth /\ [][NextAuth]_vars

-----------------------------------------------------------------------------
(* Properties of the authorization service *)

ValidTokens == {"admin", "manager", "event"}

\* The variant each lowercase token names.
ExpectedPrivilege(token) ==
    CASE token = "admin" -> "Admin"
      [] token = "manager" -> "Manager"
      [] token = "event" -> "Event"

\* The privileges the relation assigns to a role of a guild.
Held(guild, role) == {p \in Privilege : <<guild, role, p>> \in role_privileges}

\* C5: guild_has_privileges answers TRUE exactly when the role holds every
\* required privilege in the guild: TRUE for an empty list, for every guild
\* and role, and FALSE when one required privilege is missing, whatever else
\* the role holds.
C5_AllRequired ==
    LET required == resp.args.privileges_str
    IN (/\ resp.op = "guild_has_privileges"
        /\ \A i \in 1 .. Len(required) : required[i] \in ValidTokens)
          => resp.result =
                Ok(\A i \in 1 .. Len(required) :
                      ExpectedPrivilege(required[i]) \in Held(resp.args.guild, resp.args.role))

\* C5's case: a role that holds only Admin was asked for Admin and Manager,
\* and the answer is FALSE.
C5_Witness ==
    /\ resp.op = "guild_has_privileges"
    /\ resp.args.privileges_str = <<"admin", "manager">>
    /\ Held(resp.args.guild, resp.args.role) = {"Admin"}
    /\ resp.result = Ok(FALSE)

\* C6: guild_have_privilege answers TRUE exactly when some role of the list
\* holds the privilege in the guild: FALSE for an empty list and for a list
\* whose roles hold only other privileges.
C6_AnyRole ==
    (resp.op = "guild_have_privilege" /\ resp.args.privilege_str \in ValidTokens)
        => resp.result =
              Ok(\E i \in 1 .. Len(resp.args.roles) :
                    ExpectedPrivilege(resp.args.privilege_str)
                        \in Held(resp.args.guild, resp.args.roles[i]))

\* C6's case: the first role of the list holds only other privileges, the
\* second one holds Admin, and the answer for Admin is TRUE.
C6_Witness ==
    /\ resp.op = "guild_have_privilege"
    /\ resp.args.privilege_str = "admin"
    /\ Len(resp.args.roles) = 2
    /\ Held(resp.args.guild, resp.args.roles[1]) = {"Manager"}
    /\ "Admin" \in Held(resp.args.guild, resp.args.roles[2])
    /\ resp.result = Ok(TRUE)

\* C9: a privilege text is accepted exactly when it is "admin", "manager" or
\* "event", and then names Admin, Manager, Event; any other text fails with
\* UnrecognizedPrivilege carrying the text; the texts guild_privileges_for
\* returns for a role parse back to exactly the privileges the role holds.
C9_ParseExact ==
    /\ resp.op = "guild_roles_with"
          => LET text == resp.args.privilege_str
                 with(p) == Ok(Ascending({role \in RoleIds : p \in Held(resp.args.guild, role)}))
             IN /\ text = "admin" => resp.result = with("Admin")
                /\ text = "manager" => resp.result = with("Manager")
                /\ text = "event" => resp.result = with("Event")
                /\ text \notin ValidTokens
                      => /\ resp.result = Err(UnrecognizedPrivilege(text))
                         /\ respond_to(resp.result).status = "BadRequest"
    /\ resp.op = "guild_privileges_for"
          => /\ resp.result.tag = "Ok"
             /\ LET texts == resp.result.val
                    held == Held(resp.args.guild, resp.args.role)
                IN /\ Len(texts) = Cardinality(held)
                   /\ \A i \in 1 .. Len(texts) : str_to_priv(texts[i]).tag = "Ok"
                   /\ {str_to_priv(texts[i]).val : i \in 1 .. Len(texts)} = held

\* C9's case: "Admin" was refused for a guild in which a role holds Admin.
C9_Witness ==
    /\ resp.op = "guild_roles_with"
    /\ resp.args.privilege_str = "Admin"
    /\ resp.result = Err(UnrecognizedPrivilege("Admin"))
    /\ \E role \in RoleIds : "Admin" \in Held(resp.args.guild, role)

====
